---- MODULE Spec2Model ----
(***************************************************************************)
(* Expense tracker (src/app.py): the CSV record store (initialize_csv,     *)
(* clean_csv, the append in index) and the summary computation             *)
(* (get_summary), modelled as a state machine.                             *)
(*                                                                         *)
(* Text is a sequence of tokens.  A token is one character ("a", ",",      *)
(* " ", the double quote, a digit, ".", "-", "$") or an atomic chunk that  *)
(* holds no comma, quote or leading/trailing blank: a header word, a       *)
(* category label, an ISO date.  Money is an integer number of             *)
(* thousandths (mills); the texts the model feeds carry at most three      *)
(* fraction digits and never sit on a rounding tie.                        *)
(***************************************************************************)
EXTENDS Integers, Sequences, FiniteSets, TLC

VARIABLES
    file,       \* expenses.csv: [exists, lines], a line is [txt, nl]
    linesep,    \* os.linesep of the platform the process runs on
    now,        \* the wall clock date [y, m, d]
    ticks,      \* days elapsed since the initial state
    started,    \* the module has been imported (initialize_csv has run)
    pending,    \* an append whose line is only partly on disk
    last,       \* the last operation, its inputs and the file before it
    response    \* what the last completed request returned

vars == <<file, linesep, now, ticks, started, pending, last, response>>

(***************************** bounds ***************************************)
MaxRecords == 2      \* data lines a store grows to in Spec
MaxLines == 2        \* data lines of an arbitrary file in SpecFile
ClockDays == 121     \* days the clock advances in SpecClock

(************************** configuration ***********************************)
BUDGET == 2000
RecentCount == 5
FallbackDays == 30
ExpectedFields == 4

EXPENSE_CATEGORIES == <<"Food", "Home", "Work", "Fun", "Miscellaneous">>

HeaderRow == << <<"Name">>, <<"Amount">>, <<"Category">>, <<"Date">> >>

QUOTE == "\""
NaN == <<"<NaN>">>
NoneField == <<"<None>">>

(***************************** text helpers *********************************)
Range(s) == {s[i] : i \in 1..Len(s)}

Max(a, b) == IF a >= b THEN a ELSE b

Abs(n) == IF n < 0 THEN -n ELSE n

IsNewline(c) == c \in {"LF", "CRLF"}

\* str.strip(): leading and trailing blanks removed.
RECURSIVE LStrip(_)
LStrip(t) == IF t # <<>> /\ Head(t) = " " THEN LStrip(Tail(t)) ELSE t

RECURSIVE RStrip(_)
RStrip(t) ==
    IF t # <<>> /\ t[Len(t)] = " " THEN RStrip(SubSeq(t, 1, Len(t) - 1)) ELSE t

Strip(t) == RStrip(LStrip(t))

\* str.split(','): always at least one (possibly empty) field.
RECURSIVE SplitComma(_, _, _)
SplitComma(t, i, cur) ==
    IF i > Len(t) THEN <<cur>>
    ELSE IF t[i] = "," THEN <<cur>> \o SplitComma(t, i + 1, <<>>)
    ELSE SplitComma(t, i + 1, Append(cur, t[i]))

RECURSIVE Join(_, _)
Join(fields, sep) ==
    IF fields = <<>> THEN <<>>
    ELSE IF Len(fields) = 1 THEN fields[1]
    ELSE fields[1] \o <<sep>> \o Join(Tail(fields), sep)

(******************************* numbers ************************************)
IsDigit(c) == c \in {"0", "1", "2", "3", "4", "5", "6", "7", "8", "9"}

DigitVal(c) == CHOOSE d \in 0..9 : ToString(d) = c

RECURSIVE Digits(_)
Digits(n) ==
    IF n < 10 THEN <<ToString(n)>> ELSE Append(Digits(n \div 10), ToString(n % 10))

RECURSIVE DigitsVal(_)
DigitsVal(t) ==
    IF t = <<>> THEN 0 ELSE 10 * DigitsVal(SubSeq(t, 1, Len(t) - 1)) + DigitVal(t[Len(t)])

\* a / b rounded to the nearest integer, a >= 0, b > 0, a tie to the even one.
RoundDiv(a, b) ==
    LET q == a \div b
        r == a % b
    IN  IF 2 * r > b THEN q + 1
        ELSE IF 2 * r < b THEN q
        ELSE IF q % 2 = 0 THEN q ELSE q + 1

\* f"{x:.2f}" of the quotient n / d of mills n by d >= 1.
Format2fDiv(n, d) ==
    LET cents == RoundDiv(Abs(n), 10 * d)
        body == Digits(cents \div 100) \o <<".", ToString((cents % 100) \div 10),
                                            ToString(cents % 10)>>
    IN  IF n < 0 THEN <<"-">> \o body ELSE body

Format2f(mills) == Format2fDiv(mills, 1)

Dollar(t) == <<"$">> \o t

\* A decimal literal: optional sign, digits, optional point and digits, at
\* least one digit, at most three fraction digits.  [ok, mills].
ParseDecimal(t) ==
    LET neg == t # <<>> /\ Head(t) = "-"
        u == IF neg THEN Tail(t) ELSE t
        parts == SplitComma([i \in 1..Len(u) |-> IF u[i] = "." THEN "," ELSE u[i]],
                            1, <<>>)
        ip == parts[1]
        fp == IF Len(parts) = 2 THEN parts[2] ELSE <<>>
        wellformed ==
            /\ "," \notin Range(u)
            /\ Len(parts) <= 2
            /\ \A c \in Range(ip) \cup Range(fp) : IsDigit(c)
            /\ Len(ip) + Len(fp) >= 1
            /\ Len(fp) <= 3
        fp3 == fp \o SubSeq(<<"0", "0", "0">>, 1, 3 - Len(fp))
        mag == 1000 * DigitsVal(ip) + DigitsVal(fp3)
    IN  IF wellformed THEN [ok |-> TRUE, mills |-> IF neg THEN -mag ELSE mag]
        ELSE [ok |-> FALSE, mills |-> 0]

\* float(text), src/app.py line 141: "value", "ValueError" or "TypeError".
ParseFloat(t) ==
    IF t = NoneField THEN [kind |-> "TypeError", mills |-> 0]
    ELSE LET p == ParseDecimal(Strip(t))
         IN  IF p.ok THEN [kind |-> "value", mills |-> p.mills]
             ELSE [kind |-> "ValueError", mills |-> 0]

\* pd.to_numeric(errors='coerce').fillna(0) of one Amount cell.
ToNumeric(cell) ==
    IF cell = NaN THEN 0
    ELSE LET p == ParseDecimal(cell) IN IF p.ok THEN p.mills ELSE 0

(******************************* calendar ***********************************)
IsLeap(y) == y % 4 = 0 /\ (y % 100 # 0 \/ y % 400 = 0)

\* calendar.monthrange(year, month)[1]
DaysInMonth(y, m) ==
    IF m = 2 THEN (IF IsLeap(y) THEN 29 ELSE 28)
    ELSE IF m \in {4, 6, 9, 11} THEN 30 ELSE 31

Pad2(n) == IF n < 10 THEN "0" \o ToString(n) ELSE ToString(n)

\* datetime.date.today().isoformat(): one atomic token
IsoDate(t) == ToString(t.y) \o "-" \o Pad2(t.m) \o "-" \o Pad2(t.d)

NextDate(t) ==
    IF t.d < DaysInMonth(t.y, t.m) THEN [t EXCEPT !.d = t.d + 1]
    ELSE IF t.m < 12 THEN [y |-> t.y, m |-> t.m + 1, d |-> 1]
    ELSE [y |-> t.y + 1, m |-> 1, d |-> 1]

\* the days left, today not counted
RemainingDaysMutant(t) == Max(1, DaysInMonth(t.y, t.m) - t.d)

RemainingDays(t) == Max(1, DaysInMonth(t.y, t.m) - t.d + 1)

(***************************** the store ***********************************)
AbsentFile == [exists |-> FALSE, lines |-> <<>>]

Line(txt, nl) == [txt |-> txt, nl |-> nl]

\* Bytes written at the end of the file: they continue a last line that has
\* no terminator yet.
AppendBytes(f, txt, nl) ==
    LET n == Len(f.lines)
    IN  IF n > 0 /\ f.lines[n].nl = ""
        THEN [exists |-> TRUE,
              lines |-> [f.lines EXCEPT ![n] = Line(f.lines[n].txt \o txt, nl)]]
        ELSE [exists |-> TRUE, lines |-> Append(f.lines, Line(txt, nl))]

\* csv.writer, QUOTE_MINIMAL: a field holding the delimiter or the quote
\* character is quoted, its quotes doubled.
RECURSIVE DoubleQuotes(_)
DoubleQuotes(t) ==
    IF t = <<>> THEN <<>>
    ELSE IF Head(t) = QUOTE THEN <<QUOTE, QUOTE>> \o DoubleQuotes(Tail(t))
    ELSE <<Head(t)>> \o DoubleQuotes(Tail(t))

WriteField(t) ==
    IF "," \in Range(t) \/ QUOTE \in Range(t)
    THEN <<QUOTE>> \o DoubleQuotes(t) \o <<QUOTE>>
    ELSE t

\* csv.writer.writerow(row) without its "\r\n" terminator
RowText(row) == Join([i \in 1..Len(row) |-> WriteField(row[i])], ",")

\* the row index builds for a valid submission, lines 143-146
NewRow(name, mills, category, t) ==
    <<name, Format2f(mills), category, <<IsoDate(t)>> >>

\* f.readlines() of a file opened in text mode: every terminator reads "\n"
ReadLines(f) ==
    [i \in 1..Len(f.lines) |->
        Line(f.lines[i].txt, IF f.lines[i].nl = "" THEN "" ELSE "LF")]

\* f.writelines(lines) to a file opened 'w' in text mode: "\n" is written
\* as os.linesep
WriteLines(lines, sep) ==
    [exists |-> TRUE,
     lines |-> [i \in 1..Len(lines) |->
                   Line(lines[i].txt, IF lines[i].nl = "" THEN "" ELSE sep)]]

\* len(line.strip().split(','))
FieldCount(txt) == Len(SplitComma(Strip(txt), 1, <<>>))

KeepLine(txt) == FieldCount(txt) = ExpectedFields

\* clean_csv with the header line filtered out with the rest
clean_csvMutant(f, sep) ==
    IF ~f.exists \/ f.lines = <<>> THEN f
    ELSE WriteLines(SelectSeq(Tail(ReadLines(f)), LAMBDA l : KeepLine(l.txt)), sep)

\* clean_csv's result on file f; any exception (a missing file, lines[0] of
\* an empty file) is caught before the file is reopened for writing.
clean_csv(f, sep) ==
    IF ~f.exists \/ f.lines = <<>> THEN f
    ELSE LET lines == ReadLines(f)
             valid_lines == <<lines[1]>> \o
                 SelectSeq(Tail(lines), LAMBDA l : KeepLine(l.txt))
         IN  WriteLines(valid_lines, sep)

HeaderFile == [exists |-> TRUE, lines |-> <<Line(RowText(HeaderRow), "CRLF")>>]

\* initialize_csv without the repair of an existing file
initialize_csvMutant(f, sep) ==
    IF ~f.exists \/ f.lines = <<>> THEN HeaderFile ELSE f

initialize_csv(f, sep) ==
    IF ~f.exists \/ f.lines = <<>> THEN HeaderFile ELSE clean_csv(f, sep)

(*************************** pandas.read_csv *******************************)
\* the file as the character stream the parser sees
RECURSIVE Stream(_)
Stream(lines) ==
    IF lines = <<>> THEN <<>>
    ELSE Head(lines).txt
         \o (IF Head(lines).nl = "" THEN <<>> ELSE <<Head(lines).nl>>)
         \o Stream(Tail(lines))

\* index of the first line terminator at or after i, Len(s) + 1 if none
RECURSIVE LineEnd(_, _)
LineEnd(s, i) ==
    IF i > Len(s) \/ IsNewline(s[i]) THEN i ELSE LineEnd(s, i + 1)

WhitespaceLine(s, i) == \A k \in i..(LineEnd(s, i) - 1) : s[k] = " "

\* The tokenizer, with sep=',', the default quote character and
\* skipinitialspace=True.  Blank and whitespace-only lines are skipped; a
\* quoted field runs across line ends; the input ending inside a quoted
\* field is a parser error.
RECURSIVE Tokenize(_, _, _, _, _, _)
Tokenize(s, i, st, cur, row, rows) ==
    IF i > Len(s) THEN
        IF st = "START_RECORD" THEN [rows |-> rows, error |-> FALSE]
        ELSE IF st = "IN_QUOTED_FIELD" THEN [rows |-> rows, error |-> TRUE]
        ELSE [rows |-> Append(rows, Append(row, cur)), error |-> FALSE]
    ELSE LET c == s[i] IN
        CASE st = "START_RECORD" ->
                IF IsNewline(c)
                THEN Tokenize(s, i + 1, "START_RECORD", <<>>, <<>>, rows)
                ELSE IF WhitespaceLine(s, i)
                THEN Tokenize(s, LineEnd(s, i) + 1, "START_RECORD", <<>>, <<>>, rows)
                ELSE Tokenize(s, i, "START_FIELD", <<>>, <<>>, rows)
          [] st = "START_FIELD" ->
                IF IsNewline(c)
                THEN Tokenize(s, i + 1, "START_RECORD", <<>>, <<>>,
                              Append(rows, Append(row, cur)))
                ELSE IF c = QUOTE
                THEN Tokenize(s, i + 1, "IN_QUOTED_FIELD", cur, row, rows)
                ELSE IF c = " "
                THEN Tokenize(s, i + 1, "START_FIELD", cur, row, rows)
                ELSE IF c = ","
                THEN Tokenize(s, i + 1, "START_FIELD", <<>>, Append(row, cur), rows)
                ELSE Tokenize(s, i + 1, "IN_FIELD", Append(cur, c), row, rows)
          [] st = "IN_FIELD" ->
                IF IsNewline(c)
                THEN Tokenize(s, i + 1, "START_RECORD", <<>>, <<>>,
                              Append(rows, Append(row, cur)))
                ELSE IF c = ","
                THEN Tokenize(s, i + 1, "START_FIELD", <<>>, Append(row, cur), rows)
                ELSE Tokenize(s, i + 1, "IN_FIELD", Append(cur, c), row, rows)
          [] st = "IN_QUOTED_FIELD" ->
                IF c = QUOTE
                THEN Tokenize(s, i + 1, "QUOTE_IN_QUOTED_FIELD", cur, row, rows)
                ELSE Tokenize(s, i + 1, "IN_QUOTED_FIELD", Append(cur, c), row, rows)
          [] OTHER ->
                IF IsNewline(c)
                THEN Tokenize(s, i + 1, "START_RECORD", <<>>, <<>>,
                              Append(rows, Append(row, cur)))
                ELSE IF c = QUOTE
                THEN Tokenize(s, i + 1, "IN_QUOTED_FIELD", Append(cur, c), row, rows)
                ELSE IF c = ","
                THEN Tokenize(s, i + 1, "START_FIELD", <<>>, Append(row, cur), rows)
                ELSE Tokenize(s, i + 1, "IN_FIELD", Append(cur, c), row, rows)

\* one cell of the frame: an empty field is missing (NaN)
Cell(row, k) == IF k > Len(row) \/ row[k] = <<>> THEN NaN ELSE row[k]

Record(row) ==
    [Name |-> Cell(row, 1), Amount |-> ToNumeric(Cell(row, 2)),
     Category |-> Cell(row, 3), Date |-> Cell(row, 4)]

\* pd.read_csv(header=0, names=[4 names], on_bad_lines='skip',
\* skipinitialspace=True) followed by the Amount coercion of line 84:
\* "FileNotFoundError", "EmptyDataError", "ParserError" or the frame.  The
\* first row is the header and is replaced by the names; a row with more
\* fields than names is a bad line and is skipped; a row with fewer is
\* filled with NaN.
read_csv(f) ==
    IF ~f.exists THEN [error |-> "FileNotFoundError", df |-> <<>>]
    ELSE LET t == Tokenize(Stream(f.lines), 1, "START_RECORD", <<>>, <<>>, <<>>)
         IN  IF t.error THEN [error |-> "ParserError", df |-> <<>>]
             ELSE IF t.rows = <<>> THEN [error |-> "EmptyDataError", df |-> <<>>]
             ELSE LET good == SelectSeq(Tail(t.rows),
                                        LAMBDA r : Len(r) <= ExpectedFields)
                  IN  [error |-> "", df |-> [i \in 1..Len(good) |-> Record(good[i])]]

(***************************** get_summary *********************************)
RECURSIVE SumAmounts(_)
SumAmounts(df) == IF df = <<>> THEN 0 ELSE Head(df).Amount + SumAmounts(Tail(df))

\* .round(2) of a sum of mills
Round2(mills) ==
    IF mills < 0 THEN -10 * RoundDiv(-mills, 10) ELSE 10 * RoundDiv(mills, 10)

\* df.groupby('Category')['Amount'].sum().round(2).to_dict(): one key per
\* category value present in the frame, missing (NaN) keys left out
GroupByCategory(df) ==
    LET keys == {df[i].Category : i \in 1..Len(df)} \ {NaN}
    IN  [k \in keys |->
            Round2(SumAmounts(SelectSeq(df, LAMBDA r : r.Category = k)))]

\* df.tail(5).sort_index(ascending=False).to_dict('records')
RecentExpenses(df) ==
    LET n == Len(df)
        k == IF n < RecentCount THEN n ELSE RecentCount
    IN  [i \in 1..k |-> df[n + 1 - i]]

\* the summary both except branches return, lines 113-131
FallbackSummary ==
    [total_spent |-> Dollar(Format2f(0)),
     remaining_budget |-> Dollar(Format2f(BUDGET * 1000)),
     daily_budget |-> Dollar(Format2fDiv(BUDGET * 1000, FallbackDays)),
     category_summary |-> [k \in {} |-> 0],
     recent_expenses |-> <<>>]

\* get_summary() run on file f at date t: (summary, total_spent)
get_summary(f, t) ==
    LET r == read_csv(f)
        total_spent == SumAmounts(r.df)
        remaining_budget == BUDGET * 1000 - total_spent
    IN  IF r.error # "" THEN [summary |-> FallbackSummary, total_spent |-> 0]
        ELSE [summary |->
                 [total_spent |-> Dollar(Format2f(total_spent)),
                  remaining_budget |-> Dollar(Format2f(remaining_budget)),
                  daily_budget |->
                      Dollar(Format2fDiv(remaining_budget, RemainingDays(t))),
                  category_summary |-> GroupByCategory(r.df),
                  recent_expenses |-> RecentExpenses(r.df)],
              total_spent |-> total_spent]

\* chart_data of index, lines 172-175
ChartData(summary) ==
    [i \in 1..Len(EXPENSE_CATEGORIES) |->
        LET cat == <<EXPENSE_CATEGORIES[i]>>
        IN  [name |-> cat,
             value |-> IF cat \in DOMAIN summary.category_summary
                       THEN summary.category_summary[cat] ELSE 0]]

(******************************** index ************************************)
MsgInvalidInput == "Invalid input. Please check your entries."
MsgInvalidAmount == "Invalid amount. Please enter a valid number."
MsgError == "Error saving expense. Please try again."

Truthy(name) == name # <<>> /\ name # NoneField

InCategories(category) ==
    \E i \in 1..Len(EXPENSE_CATEGORIES) : category = <<EXPENSE_CATEGORIES[i]>>

\* the test of line 145 letting a zero amount through
AcceptsMutant(name, mills, category) ==
    Truthy(name) /\ mills >= 0 /\ InCategories(category)

\* the test of line 145 on the parsed amount
Accepts(name, mills, category) ==
    Truthy(name) /\ mills > 0 /\ InCategories(category)

\* the POST branch of index on file f at date t: the file afterwards and the
\* message of the redirect ("" for the plain redirect after a save)
index_post(f, name, amount, category, t) ==
    LET a == ParseFloat(amount)
    IN  IF a.kind = "TypeError" THEN [file |-> f, message |-> MsgError]
        ELSE IF a.kind = "ValueError" THEN [file |-> f, message |-> MsgInvalidAmount]
        ELSE IF Accepts(name, a.mills, category)
        THEN [file |-> AppendBytes(f, RowText(NewRow(name, a.mills, category, t)),
                                   "CRLF"),
              message |-> ""]
        ELSE [file |-> f, message |-> MsgInvalidInput]

(***************************** requests ************************************)
NoSummary ==
    [total_spent |-> <<>>, remaining_budget |-> <<>>, daily_budget |-> <<>>,
     category_summary |-> [k \in {} |-> 0], recent_expenses |-> <<>>]

NoResponse ==
    [kind |-> "none", message |-> "", summary |-> NoSummary, total_spent |-> 0,
     chart_data |-> <<>>]

Redirect(message) == [NoResponse EXCEPT !.kind = "redirect", !.message = message]

Page(s) ==
    [kind |-> "page", message |-> "", summary |-> s.summary,
     total_spent |-> s.total_spent, chart_data |-> ChartData(s.summary)]

NoPending ==
    [active |-> FALSE, rest |-> <<>>, before |-> AbsentFile, name |-> <<>>,
     amount |-> <<>>, category |-> <<>>]

\* the record of an operation; a rejected submission's inputs are not kept
Op(op, before, name, amount, category) ==
    [op |-> op, before |-> before, name |-> name, amount |-> amount,
     category |-> category]

PlainOp(op, before) == Op(op, before, <<>>, <<>>, <<>>)

\* what a submission may carry
NameInputs == {<<>>, <<"a">>, <<"a", ",">>, <<" ", "a">>}

AmountInputs ==
    {NoneField, <<"a", "b", "c">>, <<"-", "5">>, <<"0">>, <<"1", "2", ".", "5">>}

CategoryInputs == {<<"Unknown">>, <<"Food">>}

DataLines(f) == IF f.lines = <<>> THEN 0 ELSE Len(f.lines) - 1

\* module import, line 57: the process starts (or restarts)
Startup ==
    /\ ~pending.active
    /\ file' = initialize_csv(file, linesep)
    /\ started' = TRUE
    /\ last' = PlainOp("initialize", file)
    /\ response' = NoResponse
    /\ UNCHANGED <<linesep, now, ticks, pending>>

\* POST /, the whole handler
IndexPost ==
    /\ started /\ ~pending.active
    /\ \E name \in NameInputs, amount \in AmountInputs, category \in CategoryInputs :
        LET r == index_post(file, name, amount, category, now)
        IN  /\ r.message = "" => DataLines(file) < MaxRecords
            /\ file' = r.file
            /\ response' = Redirect(r.message)
            /\ last' = IF r.message = ""
                       THEN Op("post", file, name, amount, category)
                       ELSE PlainOp("post", file)
    /\ UNCHANGED <<linesep, now, ticks, started, pending>>

\* POST / of an accepted submission whose line reaches the disk in two
\* parts: the first k characters are written
AppendBegin ==
    /\ started /\ ~pending.active
    /\ DataLines(file) < MaxRecords
    /\ \E name \in NameInputs, amount \in AmountInputs, category \in CategoryInputs :
        LET a == ParseFloat(amount)
            txt == RowText(NewRow(name, a.mills, category, now))
        IN  /\ a.kind = "value"
            /\ Accepts(name, a.mills, category)
            /\ \E k \in 1..(Len(txt) - 1) :
                /\ file' = AppendBytes(file, SubSeq(txt, 1, k), "")
                /\ pending' = [active |-> TRUE, rest |-> SubSeq(txt, k + 1, Len(txt)),
                               before |-> file, name |-> name, amount |-> amount,
                               category |-> category]
            /\ last' = Op("append_begin", file, name, amount, category)
    /\ UNCHANGED <<linesep, now, ticks, started, response>>

\* the rest of the line and its terminator are written, the handler returns
AppendFinish ==
    /\ pending.active
    /\ file' = AppendBytes(file, pending.rest, "CRLF")
    /\ pending' = NoPending
    /\ response' = Redirect("")
    /\ last' = Op("post", pending.before, pending.name, pending.amount,
                  pending.category)
    /\ UNCHANGED <<linesep, now, ticks, started>>

\* GET /
IndexGet ==
    /\ started
    /\ response' = Page(get_summary(file, now))
    /\ last' = PlainOp("get", file)
    /\ UNCHANGED <<file, linesep, now, ticks, started, pending>>

\* clean_csv run on the file as it is
Repair ==
    /\ ~pending.active
    /\ file' = clean_csv(file, linesep)
    /\ last' = PlainOp("clean", file)
    /\ UNCHANGED <<linesep, now, ticks, started, pending, response>>

\* midnight
Tick ==
    /\ ticks < ClockDays
    /\ ticks' = ticks + 1
    /\ now' = NextDate(now)
    /\ last' = PlainOp("tick", file)
    /\ UNCHANGED <<file, linesep, started, pending, response>>

(************************** specifications *********************************)
\* Spec: the life of a store that is absent when the process first starts
Init ==
    /\ file = AbsentFile
    /\ linesep \in {"LF", "CRLF"}
    /\ now = [y |-> 2024, m |-> 2, d |-> 28]
    /\ ticks = 0
    /\ started = FALSE
    /\ pending = NoPending
    /\ last = PlainOp("none", AbsentFile)
    /\ response = NoResponse

Next ==
    \/ Startup
    \/ IndexPost
    \/ AppendBegin
    \/ AppendFinish
    \/ IndexGet

Spec == Init /\ [][Next]_vars

\* SpecFile: a running process whose store file holds arbitrary lines
Today == <<"2024-02-28">>

LineTexts ==
    { <<>>,
      <<" ">>,
      <<"a", ",", "b", ",", "c">>,
      <<"a", ",", "5", ".", "0", "0", ",", "Food">>,
      <<"a", ",", "5", ".", "0", "0", ",", "Food", ",">> \o Today,
      <<"a", ",", "x", ",", "Food", ",">> \o Today,
      <<"a", ",", "5", ".", "0", "0", ",", "Zzz", ",">> \o Today,
      <<QUOTE, "a", ",", "b", QUOTE, ",", "5", ".", "0", "0", ",", "Food", ",">>
          \o Today,
      <<"a", ",", "5", ".", "0", "0", ",", "Food", ",">> \o Today \o <<",", "e">> }

FirstLines == {RowText(HeaderRow), <<>>, <<"a", ",", "b", ",", "c">>}

RECURSIVE SeqsUpTo(_, _)
SeqsUpTo(S, n) ==
    IF n = 0 THEN {<<>>}
    ELSE LET shorter == SeqsUpTo(S, n - 1)
         IN  shorter \cup {Append(q, x) : q \in {r \in shorter : Len(r) = n - 1}, x \in S}

\* every line ends with the terminator nl, the last one with lastnl
FileOf(texts, nl, lastnl) ==
    [exists |-> TRUE,
     lines |-> [i \in 1..Len(texts) |->
                   Line(texts[i], IF i = Len(texts) THEN lastnl ELSE nl)]]

ArbitraryFiles ==
    {AbsentFile, [exists |-> TRUE, lines |-> <<>>]}
    \cup { f \in { FileOf(<<h>> \o body, nl, lastnl) :
                     h \in FirstLines, body \in SeqsUpTo(LineTexts, MaxLines),
                     nl \in {"LF", "CRLF"}, lastnl \in {"", "LF", "CRLF"} } :
             LET n == Len(f.lines)
             IN  /\ f.lines[n].nl \in {"", f.lines[1].nl} \/ n = 1
                 /\ ~(f.lines[n].txt = <<>> /\ f.lines[n].nl = "") }

InitFile ==
    /\ file \in ArbitraryFiles
    /\ linesep \in {"LF", "CRLF"}
    /\ now = [y |-> 2024, m |-> 2, d |-> 28]
    /\ ticks = 0
    /\ started = TRUE
    /\ pending = NoPending
    /\ last = PlainOp("none", file)
    /\ response = NoResponse

NextFile ==
    \/ Startup
    \/ Repair
    \/ IndexGet

SpecFile == InitFile /\ [][NextFile]_vars

\* SpecClock: a store of complete records read on every day of four
\* Novembers to Marches
ClockStarts ==
    {[y |-> yy, m |-> 11, d |-> 1] : yy \in {1999, 2022, 2023, 2099}}

ClockRows ==
    { <<>>,
      << <<"a">>, <<"1", "2", ".", "5", "0">>, <<"Food">>, Today >>,
      << <<"a">>, <<"2", "5", "0", "0", ".", "0", "1">>, <<"Home">>, Today >> }

ClockFiles ==
    {IF row = <<>> THEN HeaderFile ELSE AppendBytes(HeaderFile, RowText(row), "CRLF") :
        row \in ClockRows}

InitClock ==
    /\ file \in ClockFiles
    /\ linesep = "LF"
    /\ now \in ClockStarts
    /\ ticks = 0
    /\ started = TRUE
    /\ pending = NoPending
    /\ last = PlainOp("none", file)
    /\ response = NoResponse

NextClock ==
    \/ Tick
    \/ IndexGet

SpecClock == InitClock /\ [][NextClock]_vars

(******************************* claims ************************************)
CategoryKeys == {<<EXPENSE_CATEGORIES[i]>> : i \in 1..Len(EXPENSE_CATEGORIES)}

\* every line after the first splits into exactly four fields
WellFormed(f) == \A i \in 2..Len(f.lines) : KeepLine(f.lines[i].txt)

HasHeader(f) == f.exists /\ f.lines # <<>> /\ f.lines[1].txt = RowText(HeaderRow)

Texts(f) == [i \in 1..Len(f.lines) |-> f.lines[i].txt]

\* the file with the lines after the first that do not split into four
\* fields taken out, terminators untouched
FourFieldLinesOnly(f) ==
    [exists |-> f.exists,
     lines |-> IF f.lines = <<>> THEN <<>>
               ELSE <<f.lines[1]>> \o SelectSeq(Tail(f.lines),
                                                LAMBDA l : KeepLine(l.txt))]

RECURSIVE SumValues(_, _)
SumValues(fn, keys) ==
    IF keys = {} THEN 0
    ELSE LET k == CHOOSE x \in keys : TRUE
         IN  fn[k] + SumValues(fn, keys \ {k})

Accepted == last.op = "post" /\ response.kind = "redirect" /\ response.message = ""

\* C1: after a valid submission is appended, the frame read from the store
\* is the frame read before the append plus one last record carrying the
\* submitted name, category and date and the amount rounded to 2 decimals.
C1_AppendAddsSubmittedRecord ==
    Accepted =>
        read_csv(file).df =
            Append(read_csv(last.before).df,
                   [Name |-> last.name,
                    Amount |-> Round2(ParseFloat(last.amount).mills),
                    Category |-> last.category,
                    Date |-> <<IsoDate(now)>>])

\* what C2 calls an invalid submission
Invalid(name, amount, category) ==
    \/ ParseFloat(amount).kind # "value"
    \/ ParseFloat(amount).mills <= 0
    \/ category \notin CategoryKeys
    \/ name = <<>>

\* C2: a submission whose amount does not parse, or is <= 0, or whose
\* category is not in the enumeration, or whose name is empty, leaves the
\* store file unchanged and returns a non-empty reason message.
C2_InvalidSubmissionRejected ==
    /\ started =>
        \A name \in NameInputs, amount \in AmountInputs, category \in CategoryInputs :
            Invalid(name, amount, category) =>
                LET r == index_post(file, name, amount, category, now)
                IN  r.file = file /\ r.message # ""
    /\ (last.op = "post" /\ ~Accepted) =>
        file = last.before /\ response.kind = "redirect" /\ response.message # ""

C2_Witness ==
    /\ last.op = "post"
    /\ response.message = MsgInvalidInput
    /\ DataLines(file) >= 1

\* C3: a line after the header that does not split into exactly four
\* comma-separated fields is absent from the frame get_summary reads and
\* from the file clean_csv leaves, every four-field line still being there.
C3_MalformedLinesAbsent ==
    /\ (last.op = "get" /\ HasHeader(file)) =>
        /\ read_csv(file).df = read_csv(FourFieldLinesOnly(file)).df
        /\ response.total_spent = SumAmounts(read_csv(FourFieldLinesOnly(file)).df)
    /\ (last.op = "clean" /\ HasHeader(last.before)) =>
        Texts(file) = Texts(FourFieldLinesOnly(last.before))

IsClean(f) == HasHeader(f) /\ WellFormed(f)

\* C4 as stated: clean_csv run twice leaves the file clean_csv run once
\* leaves, and a file holding only the header and four-field lines is left
\* unchanged.
C4_RepairIdempotentNoOp ==
    /\ last.op = "clean" => clean_csv(file, linesep) = file
    /\ (last.op = "clean" /\ IsClean(last.before)) => file = last.before

\* C4 amended: clean_csv run twice leaves the file clean_csv run once
\* leaves; a file holding only the header and four-field lines keeps every
\* line's text and order, each line terminator becoming os.linesep.
C4_RepairIdempotentKeepsLines ==
    /\ clean_csv(clean_csv(file, linesep), linesep) = clean_csv(file, linesep)
    /\ last.op = "clean" => clean_csv(file, linesep) = file
    /\ IsClean(file) =>
        LET g == clean_csv(file, linesep)
        IN  /\ Texts(g) = Texts(file)
            /\ \A i \in 1..Len(g.lines) :
                g.lines[i].nl = IF file.lines[i].nl = "" THEN "" ELSE linesep

C4_Witness ==
    /\ last.op = "clean"
    /\ HasHeader(file)
    /\ Len(file.lines) >= 2
    /\ Len(last.before.lines) > Len(file.lines)

\* C5: category_summary has exactly one entry per category of the
\* enumeration and its entries sum to total_spent.
C5_OneEntryPerCategory ==
    last.op = "get" =>
        LET cs == response.summary.category_summary
        IN  /\ DOMAIN cs = CategoryKeys
            /\ SumValues(cs, DOMAIN cs) = response.total_spent

\* C6: the summary of a store holding only the header row has total_spent 0
\* and is the fallback summary of an unavailable store, on every day.
C6_HeaderOnlyIsFallback ==
    (last.op = "get" /\ file = HeaderFile) =>
        /\ response.total_spent = 0
        /\ response.summary = FallbackSummary

\* C7 as stated: daily_budget is remaining_budget divided by
\* max(1, days in month - day of month).
C7_DailyBudgetDaysExclusive ==
    (last.op = "get" /\ read_csv(file).error = "") =>
        LET remaining == BUDGET * 1000 - response.total_spent
            days == Max(1, DaysInMonth(now.y, now.m) - now.d)
        IN  /\ days >= 1
            /\ response.summary.remaining_budget = Dollar(Format2f(remaining))
            /\ response.summary.daily_budget = Dollar(Format2fDiv(remaining, days))

\* C7 amended: whenever the store is read without error, daily_budget is
\* remaining_budget = BUDGET - total_spent (not clamped) divided by
\* max(1, days in month - day of month + 1), today counted; the divisor is
\* never zero.
C7_DailyBudgetDaysInclusive ==
    (last.op = "get" /\ read_csv(file).error = "") =>
        LET remaining == BUDGET * 1000 - response.total_spent
            days == Max(1, DaysInMonth(now.y, now.m) - now.d + 1)
        IN  /\ days >= 1
            /\ response.summary.remaining_budget = Dollar(Format2f(remaining))
            /\ response.summary.daily_budget = Dollar(Format2fDiv(remaining, days))

C7_Witness ==
    /\ last.op = "get"
    /\ response.total_spent > BUDGET * 1000
    /\ now.d = DaysInMonth(now.y, now.m) - 1
    /\ now.m = 2

\* C8 as stated: after get_summary ran on an existing store file, no line
\* after the header fails to split into four fields.
C8_ReadRepairs ==
    (last.op = "get" /\ last.before.exists) => WellFormed(file)

\* C8 amended: the repair runs at process start, in initialize_csv: after
\* it, the store exists and no line after the first fails to split into
\* four fields; get_summary leaves the file as it found it.
C8_StartupRepairsReadDoesNot ==
    /\ last.op = "initialize" => file.exists /\ WellFormed(file)
    /\ last.op = "get" => file = last.before

C8_Witness ==
    /\ last.op = "initialize"
    /\ ~WellFormed(last.before)
    /\ Len(file.lines) < Len(last.before.lines)

\* C9: between requests every line after the header splits into exactly
\* four fields whatever name was submitted, so a restart removes no line.
C9_AppendedLinesWellFormed ==
    /\ (started /\ ~pending.active) => WellFormed(file)
    /\ last.op = "initialize" => Len(file.lines) >= Len(last.before.lines)

\* C10: a read taken while an append has written only a prefix of its line
\* returns the records and the total of the lines stored before the append.
C10_TornLineDiscarded ==
    (last.op = "get" /\ pending.active) =>
        LET df == read_csv(pending.before).df
        IN  /\ response.summary.recent_expenses = RecentExpenses(df)
            /\ response.total_spent = SumAmounts(df)

====
